---------------------------- MODULE Spec2Model ----------------------------
(***************************************************************************)
(* A model of weather.py: the temperature converter, the date formatter,   *)
(* the numeric aggregator (calculate_mean, find_min, find_max), the CSV    *)
(* loader and the two report generators.                                   *)
(*                                                                         *)
(* Python values are records [ty, num, den, s]: ty is the Python type,     *)
(* num/den the exact value of an int or a float (den > 0; every float of   *)
(* the model is a small rational that a double holds or rounds to without  *)
(* changing any comparison made here), s the text of a str.                *)
(* A call's outcome is a record [exc, val]: exc = "" on return, otherwise  *)
(* the name of the exception raised.                                       *)
(***************************************************************************)
EXTENDS Integers, Sequences, FiniteSets, TLC

VARIABLES
    \* the numeric aggregator, run on one sequence of numbers
    numbers,        \* the list handed to find_min, find_max and calculate_mean
    agg_pc,         \* the call in progress
    idx,            \* how many elements the running loop has consumed
    found_id,       \* find_min / find_max: the running index (or None)
    found_val,      \* find_min / find_max: the running value (or None)
    total,          \* calculate_mean: the running sum
    min_result,     \* outcome of find_min(numbers)
    max_result,     \* outcome of find_max(numbers)
    mean_result,    \* outcome of calculate_mean(numbers)
    \* the loader and the report generators, run on one file
    file,           \* the rows csv.reader yields, each a list of str
    pc,             \* the call in progress
    row_idx,        \* load_data_from_csv: rows consumed so far
    output_list,    \* load_data_from_csv: records accumulated so far
    weather_data,   \* the loaded dataset handed to the generators
    summary,        \* outcome of generate_summary(weather_data)
    day_idx,        \* generate_daily_summary: days consumed so far
    output,         \* generate_daily_summary: the blocks concatenated so far
    daily_exc,      \* exception raised by generate_daily_summary ("" if none)
    \* the temperature converter, run on one integer
    temp_in_farenheit,
    temp_in_celcius

aggVars == <<numbers, agg_pc, idx, found_id, found_val, total,
             min_result, max_result, mean_result>>
reportVars == <<file, pc, row_idx, output_list, weather_data, summary,
                day_idx, output, daily_exc>>
convVars == <<temp_in_farenheit, temp_in_celcius>>
vars == <<aggVars, reportVars, convVars>>

(***************************************************************************)
(* Bounds of the model.                                                    *)
(***************************************************************************)
MaxLen == 4         \* longest list handed to the aggregator
MaxRows == 3        \* most rows in a file
MaxFahrenheit == 220    \* convert_f_to_c is run on -MaxFahrenheit .. MaxFahrenheit

(***************************************************************************)
(* Python values and call outcomes.                                        *)
(***************************************************************************)
None == [ty |-> "None", num |-> 0, den |-> 1, s |-> ""]
PyInt(n) == [ty |-> "int", num |-> n, den |-> 1, s |-> ""]
PyFloat(n, d) == [ty |-> "float", num |-> n, den |-> d, s |-> ""]
PyStr(t) == [ty |-> "str", num |-> 0, den |-> 1, s |-> t]

IsNumber(x) == x.ty \in {"int", "float"}

Ok(v) == [exc |-> "", val |-> v]
Raise(e) == [exc |-> e, val |-> None]
\* the outcome of a call that returns a tuple: val is the tuple
OkTuple(t) == [exc |-> "", val |-> t]
RaiseTuple(e) == [exc |-> e, val |-> <<>>]

\* a <= b, a >= b, a == b on numbers
NumLe(a, b) == a.num * b.den <= b.num * a.den
NumGe(a, b) == a.num * b.den >= b.num * a.den
NumEq(a, b) == a.num * b.den = b.num * a.den

\* bool(x): None, 0, 0.0 and "" are falsy
Truthy(x) ==
    CASE x.ty = "None" -> FALSE
      [] x.ty = "str" -> x.s # ""
      [] OTHER -> x.num # 0

(***************************************************************************)
(* int(str) and float(str) on the tokens a file of the model holds: the    *)
(* value Python returns, ValueError for a token outside the table.         *)
(***************************************************************************)
int_tokens ==
    [t \in {"0", "8", "10", "20", "25", "-4"} |->
        CASE t = "0" -> 0 [] t = "8" -> 8 [] t = "10" -> 10
          [] t = "20" -> 20 [] t = "25" -> 25 [] t = "-4" -> -4]

float_tokens ==
    [t \in DOMAIN int_tokens \cup {"8.5", "1e1"} |->
        CASE t = "8.5" -> <<17, 2>>
          [] t = "1e1" -> <<10, 1>>
          [] OTHER -> <<int_tokens[t], 1>>]

\* int(x): only the str case can fail with ValueError
int_of(x) ==
    CASE x.ty = "int" -> Ok(x)
      [] x.ty = "float" -> Ok(PyInt(IF x.num >= 0 THEN x.num \div x.den
                                    ELSE -((-x.num) \div x.den)))
      [] x.ty = "str" -> IF x.s \in DOMAIN int_tokens
                         THEN Ok(PyInt(int_tokens[x.s]))
                         ELSE Raise("ValueError")
      [] OTHER -> Raise("TypeError")

\* float(x)
float_of(x) ==
    CASE x.ty \in {"int", "float"} -> Ok(PyFloat(x.num, x.den))
      [] x.ty = "str" -> IF x.s \in DOMAIN float_tokens
                         THEN Ok(PyFloat(float_tokens[x.s][1], float_tokens[x.s][2]))
                         ELSE Raise("ValueError")
      [] OTHER -> Raise("TypeError")

(***************************************************************************)
(* Temperature converter.                                                  *)
(***************************************************************************)
DEGREE_SYBMOL == "°C"

\* format_temperature: f"{temp}{DEGREE_SYBMOL}", the value followed by the suffix
format_temperature(temp) == [value |-> temp, suffix |-> DEGREE_SYBMOL]

\* a mutant of RoundHalfEven: the quotient cut off instead of rounded
RoundDown(n, d) == n \div d

\* round(n/d) to an integer, ties to even, d > 0: what round(x, 1) does to
\* x = n/(10*d) when the tie is exact in binary (a multiple of 1/4), as every
\* tie the model reaches is
RoundHalfEven(n, d) ==
    LET q == n \div d
        r == n % d
    IN  IF 2 * r < d THEN q
        ELSE IF 2 * r > d THEN q + 1
        ELSE IF q % 2 = 0 THEN q ELSE q + 1

\* convert_f_to_c: round((float(t) - 32) * 5 / 9, 1), a float in tenths
convert_f_to_c(t) ==
    LET f == float_of(t)
    IN  IF f.exc # "" THEN f
        ELSE Ok(PyFloat(RoundHalfEven((f.val.num - 32 * f.val.den) * 50,
                                      9 * f.val.den), 10))

(***************************************************************************)
(* Date formatter.                                                         *)
(***************************************************************************)
\* datetime.fromisoformat on the date tokens a file of the model holds:
\* <<year, month, day>>; the time of day plays no part in the output
iso_tokens ==
    [t \in {"2021-07-05", "2021-07-06", "2021-07-06T00:00:00", "2021-07-07"} |->
        CASE t = "2021-07-05" -> <<2021, 7, 5>>
          [] t = "2021-07-06" -> <<2021, 7, 6>>
          [] t = "2021-07-06T00:00:00" -> <<2021, 7, 6>>
          [] t = "2021-07-07" -> <<2021, 7, 7>>]

fromisoformat(iso_str) ==
    IF iso_str \in DOMAIN iso_tokens THEN OkTuple(iso_tokens[iso_str])
    ELSE RaiseTuple("ValueError")

WeekdayNames == <<"Sunday", "Monday", "Tuesday", "Wednesday", "Thursday",
                  "Friday", "Saturday">>
MonthNames == <<"January", "February", "March", "April", "May", "June", "July",
                "August", "September", "October", "November", "December">>
MonthOffsets == <<0, 3, 2, 5, 0, 3, 5, 1, 4, 6, 2, 4>>

\* %A: the day of the week of a Gregorian date, 0 = Sunday
Weekday(y, m, d) ==
    LET yy == IF m < 3 THEN y - 1 ELSE y
    IN  (yy + yy \div 4 - yy \div 100 + yy \div 400 + MonthOffsets[m] + d) % 7

\* dt.strftime("%A %d %B %Y"): day and year stand for their 2- and 4-digit text
strftime(dt) ==
    [weekday |-> WeekdayNames[Weekday(dt[1], dt[2], dt[3]) + 1],
     day |-> dt[3], month |-> MonthNames[dt[2]], year |-> dt[1]]

NoDate == [weekday |-> "", day |-> 0, month |-> "", year |-> 0]

\* convert_date: the parser's error is propagated
convert_date(iso_string) ==
    LET dt == fromisoformat(iso_string)
    IN  IF dt.exc # "" THEN [exc |-> dt.exc, val |-> NoDate]
        ELSE [exc |-> "", val |-> strftime(dt.val)]

(***************************************************************************)
(* Numeric aggregator.                                                     *)
(***************************************************************************)
\* the running state of a find_min / find_max scan; exc is the exception a
\* float() of a non-numeric element raised
ScanStart == [found_id |-> None, found_val |-> None, exc |-> ""]

\* a mutant of FindMinStep: strict comparison, the first of equal values kept
FindMinStepStrict(st, i, val) ==
    LET f == float_of(val)
    IN  IF f.exc # "" THEN [st EXCEPT !.exc = f.exc]
        ELSE IF ~Truthy(st.found_val)
                \/ (NumLe(f.val, st.found_val) /\ ~NumEq(f.val, st.found_val))
        THEN [found_id |-> PyInt(i), found_val |-> f.val, exc |-> ""]
        ELSE st

\* one iteration of find_min's loop on element val at index i (0-based):
\*   if not found_val or float(val) <= found_val:
\*       found_id = idx; found_val = float(val)
\* float(val) is evaluated in the test when found_val is truthy and in the
\* body otherwise, so a failing float(val) raises either way
FindMinStep(st, i, val) ==
    LET f == float_of(val)
    IN  IF ~Truthy(st.found_val)
        THEN IF f.exc # "" THEN [st EXCEPT !.exc = f.exc]
             ELSE [found_id |-> PyInt(i), found_val |-> f.val, exc |-> ""]
        ELSE IF f.exc # "" THEN [st EXCEPT !.exc = f.exc]
        ELSE IF NumLe(f.val, st.found_val)
        THEN [found_id |-> PyInt(i), found_val |-> f.val, exc |-> ""]
        ELSE st

\* one iteration of find_max's loop: the same with >=
FindMaxStep(st, i, val) ==
    LET f == float_of(val)
    IN  IF ~Truthy(st.found_val)
        THEN IF f.exc # "" THEN [st EXCEPT !.exc = f.exc]
             ELSE [found_id |-> PyInt(i), found_val |-> f.val, exc |-> ""]
        ELSE IF f.exc # "" THEN [st EXCEPT !.exc = f.exc]
        ELSE IF NumGe(f.val, st.found_val)
        THEN [found_id |-> PyInt(i), found_val |-> f.val, exc |-> ""]
        ELSE st

\* the end of find_min / find_max:
\*   if found_id is None: return ()
\*   return found_val, found_id
ScanReturn(st) ==
    IF st.found_id = None THEN OkTuple(<<>>)
    ELSE OkTuple(<<st.found_val, st.found_id>>)

\* the scan's state after the first n elements of xs
RECURSIVE FindMinScan(_, _)
FindMinScan(xs, n) ==
    IF n = 0 THEN ScanStart
    ELSE LET st == FindMinScan(xs, n - 1)
         IN  IF st.exc # "" THEN st ELSE FindMinStep(st, n - 1, xs[n])

RECURSIVE FindMaxScan(_, _)
FindMaxScan(xs, n) ==
    IF n = 0 THEN ScanStart
    ELSE LET st == FindMaxScan(xs, n - 1)
         IN  IF st.exc # "" THEN st ELSE FindMaxStep(st, n - 1, xs[n])

find_min(xs) ==
    LET st == FindMinScan(xs, Len(xs))
    IN  IF st.exc # "" THEN RaiseTuple(st.exc) ELSE ScanReturn(st)

find_max(xs) ==
    LET st == FindMaxScan(xs, Len(xs))
    IN  IF st.exc # "" THEN RaiseTuple(st.exc) ELSE ScanReturn(st)

\* total += float(x): the outcome of one iteration of calculate_mean's loop
MeanStep(tot, x) ==
    LET f == float_of(x)
    IN  IF f.exc # "" THEN f
        ELSE Ok(PyFloat(tot.num * f.val.den + f.val.num * tot.den,
                        tot.den * f.val.den))

\* a mutant of MeanReturn: the empty list guarded, 0.0 returned
MeanReturnGuarded(tot, n) ==
    IF n = 0 THEN Ok(PyFloat(0, 1))
    ELSE Ok(PyFloat(tot.num, tot.den * n))

\* return total / len(weather_data)
MeanReturn(tot, n) ==
    IF n = 0 THEN Raise("ZeroDivisionError")
    ELSE Ok(PyFloat(tot.num, tot.den * n))

RECURSIVE MeanScan(_, _)
MeanScan(xs, n) ==
    IF n = 0 THEN Ok(PyInt(0))
    ELSE LET t == MeanScan(xs, n - 1)
         IN  IF t.exc # "" THEN t ELSE MeanStep(t.val, xs[n])

calculate_mean(xs) ==
    LET t == MeanScan(xs, Len(xs))
    IN  IF t.exc # "" THEN t ELSE MeanReturn(t.val, Len(xs))

(***************************************************************************)
(* CSV loader.                                                             *)
(***************************************************************************)
\* a mutant of is_iso_format: every first field accepted
is_iso_format_any(iso_str) == TRUE

\* is_iso_format: any exception of the parser means False
is_iso_format(iso_str) == fromisoformat(iso_str).exc = ""

\* a mutant of number_or_string: float tried before int
number_or_string_float_first(num_str) ==
    LET f == float_of(PyStr(num_str))
    IN  IF f.exc = "" THEN f ELSE Ok(PyStr(num_str))

\* number_or_string: int, else float, else the string; only ValueError is caught
number_or_string(num_str) ==
    LET i == int_of(PyStr(num_str))
        f == float_of(PyStr(num_str))
    IN  IF i.exc # "ValueError" THEN i
        ELSE IF f.exc # "ValueError" THEN f
        ELSE Ok(PyStr(num_str))

(***************************************************************************)
(* Report generator.                                                       *)
(***************************************************************************)
NoTemperature == format_temperature(None)

SummaryRaise(e) ==
    [exc |-> e, days |-> 0,
     low |-> NoTemperature, low_date |-> NoDate,
     high |-> NoTemperature, high_date |-> NoDate,
     low_avg |-> NoTemperature, high_avg |-> NoTemperature]

\* low_val, low_id = find_min(...): unpacking () raises ValueError
Unpack2(r) ==
    IF r.exc # "" THEN r
    ELSE IF Len(r.val) # 2 THEN RaiseTuple("ValueError")
    ELSE r

\* the first exception among the outcomes es, in order ("" if none)
RECURSIVE FirstExc(_)
FirstExc(es) ==
    IF es = <<>> THEN ""
    ELSE IF Head(es) # "" THEN Head(es)
    ELSE FirstExc(Tail(es))

\* generate_summary: the fields of the report, or the first exception raised
generate_summary(wd) ==
    LET date_list == [k \in 1..Len(wd) |-> wd[k][1]]
        min_list == [k \in 1..Len(wd) |-> wd[k][2]]
        max_list == [k \in 1..Len(wd) |-> wd[k][3]]
        low == Unpack2(find_min(min_list))
        high == Unpack2(find_max(max_list))
        high_avg == calculate_mean(max_list)
        low_avg == calculate_mean(min_list)
        stats == FirstExc(<<low.exc, high.exc, high_avg.exc, low_avg.exc>>)
    IN  IF stats # "" THEN SummaryRaise(stats)
        ELSE
        LET low_c == convert_f_to_c(low.val[1])
            low_d == convert_date(date_list[low.val[2].num + 1].s)
            high_c == convert_f_to_c(high.val[1])
            high_d == convert_date(date_list[high.val[2].num + 1].s)
            low_avg_c == convert_f_to_c(low_avg.val)
            high_avg_c == convert_f_to_c(high_avg.val)
            fmt == FirstExc(<<low_c.exc, low_d.exc, high_c.exc, high_d.exc,
                              low_avg_c.exc, high_avg_c.exc>>)
        IN  IF fmt # "" THEN SummaryRaise(fmt)
            ELSE [exc |-> "", days |-> Len(wd),
                  low |-> format_temperature(low_c.val), low_date |-> low_d.val,
                  high |-> format_temperature(high_c.val), high_date |-> high_d.val,
                  low_avg |-> format_temperature(low_avg_c.val),
                  high_avg |-> format_temperature(high_avg_c.val)]

\* a mutant of AppendBlock: the block put in front
PrependBlock(out, block) == <<block>> \o out

\* output += f"""---- ... """
AppendBlock(out, block) == Append(out, block)

\* the block of one day, or the first exception raised while formatting it
DayBlock(day) ==
    LET d == convert_date(day[1].s)
        lo == convert_f_to_c(day[2])
        hi == convert_f_to_c(day[3])
    IN  [exc |-> FirstExc(<<d.exc, lo.exc, hi.exc>>),
         date |-> d.val,
         min |-> format_temperature(lo.val),
         max |-> format_temperature(hi.val)]

(***************************************************************************)
(* The aggregator run on one list: find_min, then find_max, then           *)
(* calculate_mean, each loop one iteration at a time.                      *)
(***************************************************************************)
\* the numbers a list of the model holds: ints and floats, negative, zero
\* (as 0 and as 0.0) and positive
AggValues == {PyInt(-1), PyInt(0), PyInt(1), PyInt(2), PyFloat(-1, 2), PyFloat(0, 1)}

SeqsUpTo(S, n) == UNION {[1..k -> S] : k \in 0..n}

PendingTuple == [exc |-> "pending", val |-> <<>>]
Pending == [exc |-> "pending", val |-> None]

AggIdle ==
    /\ numbers = <<>>
    /\ agg_pc = "idle"
    /\ idx = 0
    /\ found_id = None
    /\ found_val = None
    /\ total = PyInt(0)
    /\ min_result = PendingTuple
    /\ max_result = PendingTuple
    /\ mean_result = Pending

ReportIdle ==
    /\ file = <<>>
    /\ pc = "idle"
    /\ row_idx = 0
    /\ output_list = <<>>
    /\ weather_data = <<>>
    /\ summary = SummaryRaise("pending")
    /\ day_idx = 0
    /\ output = <<>>
    /\ daily_exc = ""

ConvIdle ==
    /\ temp_in_farenheit = 0
    /\ temp_in_celcius = Pending

\* find_min(numbers) is called: found_id = None, found_val = None
AggInit ==
    /\ numbers \in SeqsUpTo(AggValues, MaxLen)
    /\ agg_pc = "find_min"
    /\ idx = 0
    /\ found_id = None
    /\ found_val = None
    /\ total = PyInt(0)
    /\ min_result = PendingTuple
    /\ max_result = PendingTuple
    /\ mean_result = Pending
    /\ ReportIdle
    /\ ConvIdle

Running == [found_id |-> found_id, found_val |-> found_val, exc |-> ""]

\* one iteration of the loop of find_min
FindMinIter ==
    /\ agg_pc = "find_min"
    /\ idx < Len(numbers)
    /\ LET st == FindMinStep(Running, idx, numbers[idx + 1])
       IN  IF st.exc # ""
           THEN /\ min_result' = RaiseTuple(st.exc)
                /\ agg_pc' = "find_max"
                /\ idx' = 0
                /\ found_id' = None
                /\ found_val' = None
           ELSE /\ found_id' = st.found_id
                /\ found_val' = st.found_val
                /\ idx' = idx + 1
                /\ UNCHANGED <<agg_pc, min_result>>
    /\ UNCHANGED <<numbers, total, max_result, mean_result, reportVars, convVars>>

\* find_min returns; find_max(numbers) is called
FindMinReturn ==
    /\ agg_pc = "find_min"
    /\ idx = Len(numbers)
    /\ min_result' = ScanReturn(Running)
    /\ agg_pc' = "find_max"
    /\ idx' = 0
    /\ found_id' = None
    /\ found_val' = None
    /\ UNCHANGED <<numbers, total, max_result, mean_result, reportVars, convVars>>

\* one iteration of the loop of find_max
FindMaxIter ==
    /\ agg_pc = "find_max"
    /\ idx < Len(numbers)
    /\ LET st == FindMaxStep(Running, idx, numbers[idx + 1])
       IN  IF st.exc # ""
           THEN /\ max_result' = RaiseTuple(st.exc)
                /\ agg_pc' = "calculate_mean"
                /\ idx' = 0
                /\ found_id' = None
                /\ found_val' = None
           ELSE /\ found_id' = st.found_id
                /\ found_val' = st.found_val
                /\ idx' = idx + 1
                /\ UNCHANGED <<agg_pc, max_result>>
    /\ UNCHANGED <<numbers, total, min_result, mean_result, reportVars, convVars>>

\* find_max returns; calculate_mean(numbers) is called: total = 0
FindMaxReturn ==
    /\ agg_pc = "find_max"
    /\ idx = Len(numbers)
    /\ max_result' = ScanReturn(Running)
    /\ agg_pc' = "calculate_mean"
    /\ idx' = 0
    /\ found_id' = None
    /\ found_val' = None
    /\ total' = PyInt(0)
    /\ UNCHANGED <<numbers, min_result, mean_result, reportVars, convVars>>

\* one iteration of the loop of calculate_mean
MeanIter ==
    /\ agg_pc = "calculate_mean"
    /\ idx < Len(numbers)
    /\ LET t == MeanStep(total, numbers[idx + 1])
       IN  IF t.exc # ""
           THEN /\ mean_result' = t
                /\ agg_pc' = "done"
                /\ UNCHANGED <<total, idx>>
           ELSE /\ total' = t.val
                /\ idx' = idx + 1
                /\ UNCHANGED <<agg_pc, mean_result>>
    /\ UNCHANGED <<numbers, found_id, found_val, min_result, max_result,
                   reportVars, convVars>>

\* calculate_mean returns or raises
CalculateMeanReturn ==
    /\ agg_pc = "calculate_mean"
    /\ idx = Len(numbers)
    /\ mean_result' = MeanReturn(total, Len(numbers))
    /\ agg_pc' = "done"
    /\ UNCHANGED <<numbers, idx, found_id, found_val, total, min_result,
                   max_result, reportVars, convVars>>

AggNext ==
    \/ FindMinIter
    \/ FindMinReturn
    \/ FindMaxIter
    \/ FindMaxReturn
    \/ MeanIter
    \/ CalculateMeanReturn

SpecAggregator == AggInit /\ [][AggNext]_vars

(***************************************************************************)
(* The converter run on one integer.                                       *)
(***************************************************************************)
ConvInit ==
    /\ temp_in_farenheit \in -MaxFahrenheit..MaxFahrenheit
    /\ temp_in_celcius = Pending
    /\ AggIdle
    /\ ReportIdle

ConvertFToC ==
    /\ temp_in_celcius = Pending
    /\ temp_in_celcius' = convert_f_to_c(PyInt(temp_in_farenheit))
    /\ UNCHANGED <<temp_in_farenheit, aggVars, reportVars>>

ConvNext == ConvertFToC

SpecConverter == ConvInit /\ [][ConvNext]_vars

(***************************************************************************)
(* The loader and the generators run on one file: load_data_from_csv one   *)
(* row at a time, then generate_summary, then generate_daily_summary one   *)
(* day at a time.                                                          *)
(***************************************************************************)
\* the rows a file of the model holds: blank, 2 fields, 4 fields, a first
\* field that is no date, a header, and rows of 3 fields and a date whose
\* temperatures are ints, floats, zero, negative, or no number
RowPool ==
    { <<>>,
      <<"2021-07-05", "8">>,
      <<"2021-07-05", "8", "20", "25">>,
      <<"not-a-date", "8", "20">>,
      <<"date", "min", "max">>,
      <<"2021-07-05", "8", "20">>,
      <<"2021-07-06", "10", "25">>,
      <<"2021-07-06T00:00:00", "0", "8.5">>,
      <<"2021-07-07", "-4", "0">>,
      <<"2021-07-06", "-4", "-4">>,
      <<"2021-07-07", "1e1", "abc">> }

PendingSummary == SummaryRaise("pending")

\* load_data_from_csv(file) is called: output_list = []
ReportInit ==
    /\ file \in SeqsUpTo(RowPool, MaxRows)
    /\ pc = "load_data_from_csv"
    /\ row_idx = 0
    /\ output_list = <<>>
    /\ weather_data = <<>>
    /\ summary = PendingSummary
    /\ day_idx = 0
    /\ output = <<>>
    /\ daily_exc = ""
    /\ AggIdle
    /\ ConvIdle

\* one iteration of the loop over csv_reader
LoadRow ==
    /\ pc = "load_data_from_csv"
    /\ row_idx < Len(file)
    /\ LET row == file[row_idx + 1]
       IN  IF Len(row) = 3 /\ is_iso_format(row[1])
           THEN LET min == number_or_string(row[2])
                    max == number_or_string(row[3])
                IN  IF min.exc # "" \/ max.exc # ""
                    THEN /\ pc' = "raised"
                         /\ UNCHANGED <<row_idx, output_list>>
                    ELSE /\ output_list' =
                              Append(output_list, <<PyStr(row[1]), min.val, max.val>>)
                         /\ row_idx' = row_idx + 1
                         /\ pc' = pc
           ELSE /\ row_idx' = row_idx + 1
                /\ UNCHANGED <<output_list, pc>>
    /\ UNCHANGED <<file, weather_data, summary, day_idx, output, daily_exc,
                   aggVars, convVars>>

\* return output_list
LoadReturn ==
    /\ pc = "load_data_from_csv"
    /\ row_idx = Len(file)
    /\ weather_data' = output_list
    /\ pc' = "generate_summary"
    /\ UNCHANGED <<file, row_idx, output_list, summary, day_idx, output,
                   daily_exc, aggVars, convVars>>

\* generate_summary(weather_data); then generate_daily_summary(weather_data)
\* is called: output = ""
GenerateSummary ==
    /\ pc = "generate_summary"
    /\ summary' = generate_summary(weather_data)
    /\ pc' = "generate_daily_summary"
    /\ day_idx' = 0
    /\ output' = <<>>
    /\ UNCHANGED <<file, row_idx, output_list, weather_data, daily_exc,
                   aggVars, convVars>>

\* one iteration of the loop of generate_daily_summary
DailyIter ==
    /\ pc = "generate_daily_summary"
    /\ day_idx < Len(weather_data)
    /\ LET block == DayBlock(weather_data[day_idx + 1])
       IN  IF block.exc # ""
           THEN /\ daily_exc' = block.exc
                /\ pc' = "done"
                /\ UNCHANGED <<day_idx, output>>
           ELSE /\ output' = AppendBlock(output, block)
                /\ day_idx' = day_idx + 1
                /\ UNCHANGED <<pc, daily_exc>>
    /\ UNCHANGED <<file, row_idx, output_list, weather_data, summary,
                   aggVars, convVars>>

\* a mutant of DailyReturn: an empty report refused
DailyReturnRefusingEmpty ==
    /\ pc = "generate_daily_summary"
    /\ day_idx = Len(weather_data)
    /\ pc' = "done"
    /\ daily_exc' = IF output = <<>> THEN "ValueError" ELSE daily_exc
    /\ UNCHANGED <<file, row_idx, output_list, weather_data, summary, day_idx,
                   output, aggVars, convVars>>

\* return output
DailyReturn ==
    /\ pc = "generate_daily_summary"
    /\ day_idx = Len(weather_data)
    /\ pc' = "done"
    /\ UNCHANGED <<file, row_idx, output_list, weather_data, summary, day_idx,
                   output, daily_exc, aggVars, convVars>>

ReportNext ==
    \/ LoadRow
    \/ LoadReturn
    \/ GenerateSummary
    \/ DailyIter
    \/ DailyReturn

SpecReport == ReportInit /\ [][ReportNext]_vars

(***************************************************************************)
(* Properties of the aggregator (under SpecAggregator).                    *)
(***************************************************************************)
Indices == 1..Len(numbers)

\* a call of find_min / find_max on a non-empty list has returned
Returned(r) == r.exc = "" /\ numbers # <<>>

\* v is below (above) every element of numbers
LowerBound(v) == \A j \in Indices : NumLe(v, numbers[j])
UpperBound(v) == \A j \in Indices : NumGe(v, numbers[j])

\* i (0-based) is the largest index at which numbers holds the value v
LastIndexOf(i, v) ==
    /\ i.ty = "int"
    /\ i.num + 1 \in Indices
    /\ NumEq(numbers[i.num + 1], v)
    /\ \A j \in Indices : NumEq(numbers[j], v) => j <= i.num + 1

\* C1: on a non-empty list of numbers the value find_min returns is <= every
\* element and the value find_max returns is >= every element.
C1_ReturnedValueIsBound ==
    /\ Returned(min_result) =>
           Len(min_result.val) = 2 /\ LowerBound(min_result.val[1])
    /\ Returned(max_result) =>
           Len(max_result.val) = 2 /\ UpperBound(max_result.val[1])

\* C2: on a non-empty list of numbers find_min returns the minimum with the
\* largest index at which the minimum occurs, and find_max the maximum with
\* the largest index at which the maximum occurs.
C2_ExtremeWithLastIndex ==
    /\ Returned(min_result) =>
           /\ Len(min_result.val) = 2
           /\ LowerBound(min_result.val[1])
           /\ LastIndexOf(min_result.val[2], min_result.val[1])
    /\ Returned(max_result) =>
           /\ Len(max_result.val) = 2
           /\ UpperBound(max_result.val[1])
           /\ LastIndexOf(max_result.val[2], max_result.val[1])

\* C6: on the empty list find_min and find_max return the empty tuple and
\* raise nothing, and calculate_mean raises ZeroDivisionError and returns
\* no value.
C6_EmptyInput ==
    numbers = <<>> =>
        /\ min_result.exc # "pending" => min_result = OkTuple(<<>>)
        /\ max_result.exc # "pending" => max_result = OkTuple(<<>>)
        /\ agg_pc = "done" => mean_result = Raise("ZeroDivisionError")

C6_Witness ==
    /\ numbers = <<>>
    /\ agg_pc = "done"
    /\ min_result = OkTuple(<<>>)
    /\ max_result = OkTuple(<<>>)
    /\ mean_result.exc = "ZeroDivisionError"

\* C10: after every step of the scan of find_min and of find_max the running
\* pair satisfies found_val = numbers[found_id], and on return from a
\* non-empty list the returned index is the largest index at which the
\* returned value occurs, whether or not that value is the true extreme.
C10_ScanInvariant ==
    /\ agg_pc \in {"find_min", "find_max"} =>
           /\ idx > 0 => found_id # None
           /\ found_id # None =>
                  /\ found_id.num \in 0..(idx - 1)
                  /\ NumEq(found_val, numbers[found_id.num + 1])
    /\ Returned(min_result) =>
           /\ Len(min_result.val) = 2
           /\ LastIndexOf(min_result.val[2], min_result.val[1])
    /\ Returned(max_result) =>
           /\ Len(max_result.val) = 2
           /\ LastIndexOf(max_result.val[2], max_result.val[1])

\* both scans have returned, find_min with a value that is not the minimum
\* and that occurs more than once
C10_Witness ==
    /\ Returned(min_result)
    /\ Returned(max_result)
    /\ ~LowerBound(min_result.val[1])
    /\ \E j \in Indices : /\ j < min_result.val[2].num + 1
                          /\ NumEq(numbers[j], min_result.val[1])

(***************************************************************************)
(* Properties of the converter (under SpecConverter).                      *)
(***************************************************************************)
Abs(n) == IF n < 0 THEN -n ELSE n

\* C9: for an integer input convert_f_to_c returns (value - 32) * 5 / 9
\* rounded to the nearest tenth, the nearest tenth being unique (no tie);
\* 32 gives 0.0, 212 gives 100.0 and 0 gives -17.8.
C9_NearestTenth ==
    temp_in_celcius # Pending =>
        LET c == temp_in_celcius.val
            f == temp_in_farenheit
        IN  /\ temp_in_celcius.exc = ""
            /\ c.ty = "float"
            /\ c.den = 10
            /\ 2 * Abs(9 * c.num - 50 * (f - 32)) < 9
            /\ f = 32 => c.num = 0
            /\ f = 212 => c.num = 1000
            /\ f = 0 => c.num = -178

C9_Witness ==
    /\ temp_in_farenheit = 212
    /\ temp_in_celcius = Ok(PyFloat(1000, 10))

(***************************************************************************)
(* Properties of the loader and the generators (under SpecReport).         *)
(***************************************************************************)
\* a row of 3 fields whose first field is an ISO-8601 date or date-time
ValidRow(r) == Len(r) = 3 /\ r[1] \in DOMAIN iso_tokens
ValidRows(f) == SelectSeq(f, ValidRow)

\* a temperature token as the loader is to store it
ExpectedField(tok) ==
    IF tok \in DOMAIN int_tokens THEN PyInt(int_tokens[tok])
    ELSE IF tok \in DOMAIN float_tokens
    THEN PyFloat(float_tokens[tok][1], float_tokens[tok][2])
    ELSE PyStr(tok)

\* the records accumulated from the rows rows
SameRows(records, rows) ==
    /\ Len(records) = Len(rows)
    /\ \A k \in 1..Len(rows) :
           /\ records[k][1] = PyStr(rows[k][1])
           /\ records[k][2] = number_or_string(rows[k][2]).val
           /\ records[k][3] = number_or_string(rows[k][3]).val

Loading == pc = "load_data_from_csv"

\* C3: load_data_from_csv returns exactly the rows of 3 fields whose first
\* field parses as a date, in file order with duplicates kept; every other
\* row is dropped and nothing is raised; at every step every record
\* accumulated so far has 3 fields and a parseable date.
C3_LoadKeepsValidRows ==
    /\ pc # "raised"
    /\ \A k \in 1..Len(output_list) :
           /\ Len(output_list[k]) = 3
           /\ output_list[k][1].ty = "str"
           /\ output_list[k][1].s \in DOMAIN iso_tokens
    /\ Loading => SameRows(output_list, ValidRows(SubSeq(file, 1, row_idx)))
    /\ ~Loading => SameRows(weather_data, ValidRows(file))

\* a file with a row of the wrong shape, a row whose first field is no date
\* and a valid row has been loaded
C3_Witness ==
    /\ pc = "generate_summary"
    /\ Len(weather_data) = 1
    /\ \E i, j \in 1..Len(file) :
           /\ Len(file[i]) # 3
           /\ Len(file[j]) = 3
           /\ file[j][1] \notin DOMAIN iso_tokens

\* C8: each of fields 2 and 3 of a kept row is stored as an int if its token
\* parses as an int, else as a float if it parses as one, else as the string
\* itself; a non-numeric token neither drops the row nor raises.
C8_FieldCoercion ==
    LET rows == IF Loading THEN ValidRows(SubSeq(file, 1, row_idx))
                ELSE ValidRows(file)
        records == IF Loading THEN output_list ELSE weather_data
    IN  /\ pc # "raised"
        /\ Len(records) = Len(rows)
        /\ \A k \in 1..Len(rows) :
               /\ records[k][2] = ExpectedField(rows[k][2])
               /\ records[k][3] = ExpectedField(rows[k][3])

\* a dataset with an int, a float and a str among its temperatures is loaded
C8_Witness ==
    /\ pc = "generate_summary"
    /\ \E k \in 1..Len(weather_data) : weather_data[k][2].ty = "int"
    /\ \E k \in 1..Len(weather_data) : weather_data[k][3].ty = "float"
    /\ \E k \in 1..Len(weather_data) :
           weather_data[k][2].ty = "float" /\ weather_data[k][3].ty = "str"

Summarised == pc \in {"generate_daily_summary", "done"}
NumericData == \A k \in 1..Len(weather_data) :
                   IsNumber(weather_data[k][2]) /\ IsNumber(weather_data[k][3])
MinTemp(k) == weather_data[k][2]
MaxTemp(k) == weather_data[k][3]

\* C4: on a non-empty dataset of numeric temperatures generate_summary
\* reports the number of records, the conversion of the minimum of the
\* min-temp column with the date of a record holding that minimum, and the
\* conversion of the maximum of the max-temp column with the date of a
\* record holding that maximum.
C4_SummaryReportsExtremes ==
    (Summarised /\ weather_data # <<>> /\ NumericData) =>
        /\ summary.exc = ""
        /\ summary.days = Len(weather_data)
        /\ \E k \in 1..Len(weather_data) :
               /\ \A j \in 1..Len(weather_data) : NumLe(MinTemp(k), MinTemp(j))
               /\ summary.low = format_temperature(convert_f_to_c(MinTemp(k)).val)
               /\ summary.low_date = strftime(iso_tokens[weather_data[k][1].s])
        /\ \E k \in 1..Len(weather_data) :
               /\ \A j \in 1..Len(weather_data) : NumGe(MaxTemp(k), MaxTemp(j))
               /\ summary.high = format_temperature(convert_f_to_c(MaxTemp(k)).val)
               /\ summary.high_date = strftime(iso_tokens[weather_data[k][1].s])

\* the valid rows of the file carry numeric temperatures
NumericFile ==
    \A k \in 1..Len(ValidRows(file)) :
        /\ ValidRows(file)[k][2] \in DOMAIN float_tokens
        /\ ValidRows(file)[k][3] \in DOMAIN float_tokens

\* the block of a valid row
ExpectedBlock(r) ==
    [exc |-> "",
     date |-> strftime(iso_tokens[r[1]]),
     min |-> format_temperature(convert_f_to_c(ExpectedField(r[2])).val),
     max |-> format_temperature(convert_f_to_c(ExpectedField(r[3])).val)]

\* C5: when the valid rows of the file carry numeric temperatures, the daily
\* summary of the loaded file holds exactly one block per valid row, none
\* for a dropped row, in the order of the valid rows.
C5_OneBlockPerValidRow ==
    (pc = "done" /\ NumericFile) =>
        /\ daily_exc = ""
        /\ Len(output) = Len(ValidRows(file))
        /\ \A k \in 1..Len(output) : output[k] = ExpectedBlock(ValidRows(file)[k])

\* a file of a dropped row and two valid rows of different days is reported
C5_Witness ==
    /\ pc = "done"
    /\ NumericFile
    /\ Len(file) = 3
    /\ Len(output) = 2
    /\ output[1].date # output[2].date

\* C7: on the empty dataset generate_daily_summary returns the empty string
\* and raises nothing, and generate_summary raises and yields no report.
C7_EmptyDataset ==
    (Summarised /\ weather_data = <<>>) =>
        /\ summary.exc \notin {"", "pending"}
        /\ summary = SummaryRaise(summary.exc)
        /\ daily_exc = ""
        /\ output = <<>>
        /\ day_idx = 0

C7_Witness ==
    /\ pc = "done"
    /\ file # <<>>
    /\ weather_data = <<>>
    /\ summary.exc = "ValueError"
    /\ output = <<>>

=============================================================================
